---- MODULE Spec2Model ----
(***************************************************************************)
(* Model of the synthetic time-series generators of src/utils:             *)
(* the simulators TwoStateMarkovChain, AR1, CycleRandomWalk, Renewal and   *)
(* _Renewal (stochastic_processes.py), the dataset assembler get_synthetic *)
(* and the splitter SequentialSplit (data.py).                             *)
(*                                                                         *)
(* Numbers.  A probability is an integer numerator over Grid (p = 2 with   *)
(* Grid = 3 is 2/3), or a record [num, den] where the code divides.  A     *)
(* uniform draw is an integer u in 0..Grid-1 standing for u/Grid in [0,1). *)
(* A standard normal draw is an integer.  Values perturbed by the 1e-6     *)
(* noise of get_synthetic are counted in units of 1e-6.  NaN is the        *)
(* record NaN.                                                             *)
(***************************************************************************)
EXTENDS Integers, Sequences, FiniteSets, TLC

VARIABLES
  tsmc,     \* the TwoStateMarkovChain instance of the caller, or None
  ar1,      \* the AR1 instance, or None
  crw,      \* the CycleRandomWalk instance, or None
  ren,      \* the Renewal instance, or None
  args,     \* the arguments a pure function is applied to
  call,     \* the most recent call and what it returned or raised
  rng,      \* the state of the generator most recently built by default_rng
  memo,     \* an earlier seeded generate call kept by the caller to compare
  outs,     \* the indicator sequences built by Renewal and _Renewal
  gen,      \* the generator object returned by SequentialSplit.split
  yielded   \* the partitions the generator has yielded so far

vars == <<tsmc, ar1, crw, ren, args, call, rng, memo, outs, gen, yielded>>

----------------------------------------------------------------------------
(* Bounds of the model *)

Grid == 3
MaxN == 3
MaxSeed == 1
MaxVertices == 3
MaxDecay == 6
MaxGap == 3
MaxRows == 2
MaxLags == 2
MaxDetN == 2
MaxX == 5
MaxSize == 2

None == [tag |-> "None"]
NaN == [tag |-> "NaN"]

Seeds == {[tag |-> "Some", v |-> k] : k \in 0..MaxSeed} \cup {None}

RECURSIVE SumSeq(_)
SumSeq(s) == IF s = <<>> THEN 0 ELSE s[1] + SumSeq(Tail(s))

RECURSIVE cumsum(_)
cumsum(s) ==
  IF Len(s) <= 1 THEN s
  ELSE LET c == cumsum(SubSeq(s, 1, Len(s) - 1))
       IN Append(c, c[Len(c)] + s[Len(s)])

Range(s) == {s[i] : i \in 1..Len(s)}

----------------------------------------------------------------------------
(* numpy.random.Generator: a deterministic stream that is a function of    *)
(* the seed alone; without a seed the state comes from OS entropy.         *)

RngStates == 0..(Grid * Grid - 1)

rng_next(s) == ((Grid + 1) * s + 1) % (Grid * Grid)

uniform(s) == s \div Grid

\* a generator that is shared between calls instead of built from the seed
default_rng_shared(seed, entropy) == rng

default_rng(seed, entropy) ==
  IF seed.tag = "None" THEN entropy ELSE seed.v % (Grid * Grid)

RECURSIVE rng_skip(_, _)
rng_skip(s, k) == IF k <= 0 THEN s ELSE rng_skip(rng_next(s), k - 1)

\* the k-th draw (k = 1, 2, ...) of a generator in state s
draw(s, k) == uniform(rng_skip(s, k - 1))

\* rng.binomial(n=1, p=P) with P = [num, den]
binomial(P, u) == IF u * P.den < P.num * Grid THEN 1 ELSE 0

\* rng.standard_normal: one value per draw
standard_normal(u) == u - 1

Ok(v, r, d) == [ok |-> TRUE, err |-> "", out |-> v, rng |-> r, draws |-> d]
Raise(e, r, d) == [ok |-> FALSE, err |-> e, out |-> <<>>, rng |-> r, draws |-> d]

----------------------------------------------------------------------------
(* TwoStateMarkovChain *)

TSMC_check(p, q) == 0 <= p /\ p <= Grid /\ 0 <= q /\ q <= Grid

TwoStateMarkovChain(p, q) ==
  IF ~TSMC_check(p, q) THEN [ok |-> FALSE, err |-> "AssertionError", obj |-> None]
  ELSE IF p + q = 0 THEN [ok |-> FALSE, err |-> "ZeroDivisionError", obj |-> None]
  ELSE [ok |-> TRUE, err |-> "",
        obj |-> [tag |-> "TwoStateMarkovChain", p |-> p, q |-> q,
                 P |-> << <<[num |-> Grid - p, den |-> Grid], [num |-> p, den |-> Grid]>>,
                          <<[num |-> q, den |-> Grid], [num |-> Grid - q, den |-> Grid]>> >>,
                 pi |-> <<[num |-> q, den |-> p + q], [num |-> p, den |-> p + q]>>]]

RECURSIVE TSMC_states(_, _, _, _)
TSMC_states(self, states, r, N) ==
  IF Len(states) >= N THEN [out |-> states, rng |-> r]
  ELSE TSMC_states(self,
                   Append(states, binomial(self.P[states[Len(states)] + 1][2], uniform(r))),
                   rng_next(r), N)

TSMC_generate(self, N, seed, entropy) ==
  LET r0 == default_rng(seed, entropy)
      first == binomial(self.pi[2], uniform(r0))
      r1 == rng_next(r0)
  IN IF N = 0 THEN Raise("IndexError", r1, 1)
     ELSE LET res == TSMC_states(self, <<first>>, r1, N)
          IN IF \A i \in 1..Len(res.out) : res.out[i] \in {0, 1}
             THEN Ok(res.out, res.rng, N)
             ELSE Raise("AssertionError", res.rng, N)

----------------------------------------------------------------------------
(* AR1 *)

AR1(phi) == [ok |-> TRUE, err |-> "", obj |-> [tag |-> "AR1", phi |-> phi]]

RECURSIVE AR1_states(_, _, _)
AR1_states(self, states, i) ==
  IF i > Len(states) THEN states
  ELSE AR1_states(self, [states EXCEPT ![i] = self.phi * states[i - 1] + states[i]], i + 1)

AR1_generate(self, N, seed, entropy) ==
  LET r0 == default_rng(seed, entropy)
      normals == [i \in 1..N |-> standard_normal(draw(r0, i))]
  IN Ok(AR1_states(self, normals, 2), rng_skip(r0, N), N)

----------------------------------------------------------------------------
(* CycleRandomWalk *)

CRW_check(b, s, f) ==
  /\ 0 <= b /\ b <= Grid
  /\ 0 <= s /\ s <= Grid
  /\ 0 <= f /\ f <= Grid
  /\ b + s + f = Grid

\* np.eye(vertices, k=k)[i, j], indices from 0
eye(k, i, j) == IF j = i + k THEN 1 ELSE 0

\* the matrix after the three diagonals are added and the two corner cells
\* are assigned (the later assignment wins when the cells coincide)
CRW_P(b, s, f, vertices) ==
  [i \in 0..(vertices - 1) |-> [j \in 0..(vertices - 1) |->
     IF i = vertices - 1 /\ j = 0 THEN f
     ELSE IF i = 0 /\ j = vertices - 1 THEN b
     ELSE eye(-1, i, j) * b + eye(0, i, j) * s + eye(1, i, j) * f]]

RowSum(P, i) == SumSeq([j \in 1..Cardinality(DOMAIN P[i]) |-> P[i][j - 1]])

CycleRandomWalk(b, s, f, vertices) ==
  IF ~CRW_check(b, s, f) THEN [ok |-> FALSE, err |-> "AssertionError", obj |-> None]
  ELSE IF vertices < 1 THEN [ok |-> FALSE, err |-> "IndexError", obj |-> None]
  ELSE LET P == CRW_P(b, s, f, vertices)
       IN IF \E i \in DOMAIN P : RowSum(P, i) # Grid
          THEN [ok |-> FALSE, err |-> "RowSumAssertionError", obj |-> None]
          ELSE [ok |-> TRUE, err |-> "",
                obj |-> [tag |-> "CycleRandomWalk", b |-> b, s |-> s, f |-> f,
                         vertices |-> vertices, P |-> P,
                         pi |-> [i \in 0..(vertices - 1) |-> [num |-> 1, den |-> vertices]]]]

\* rng.choice(np.arange(vertices), p=pi) with pi uniform
choice_vertex(self, u) == (u * self.vertices) \div Grid

\* rng.choice([-1, 0, 1], p=[b, s, f])
choice_move(self, u) ==
  IF u < self.b THEN -1 ELSE IF u < self.b + self.s THEN 0 ELSE 1

\* a remainder that takes the sign of the left operand, as in C
mod_trunc(a, v) == IF a < 0 THEN -((-a) % v) ELSE a % v

\* Python's % on integers with a positive right operand: a result in 0..v-1
mod(a, v) == a % v

CRW_generate(self, N, seed, entropy) ==
  LET r0 == default_rng(seed, entropy)
      initial_state == choice_vertex(self, uniform(r0))
  IN IF N = 0 THEN Raise("ValueError", rng_next(r0), 1)
     ELSE LET moves == [i \in 1..(N - 1) |-> choice_move(self, draw(r0, i + 1))]
              sums == cumsum(<<initial_state>> \o moves)
              states == [i \in 1..N |-> mod(sums[i], self.vertices)]
          IN IF \A i \in 1..N : states[i] \in 0..(self.vertices - 1)
             THEN Ok(states, rng_skip(r0, N), N)
             ELSE Raise("AssertionError", rng_skip(r0, N), N)

----------------------------------------------------------------------------
(* Renewal and _Renewal *)

RECURSIVE factorial(_)
factorial(n) == IF n <= 0 THEN 1 ELSE n * factorial(n - 1)

\* the Pochhammer symbol a (a+1) ... (a+n-1)
RECURSIVE poch(_, _)
poch(a, n) == IF n <= 0 THEN 1 ELSE a * poch(a + 1, n - 1)

\* a constructor that accepts every decay coefficient
Renewal_check_none(n) == TRUE

\* assert n > 1
Renewal_check(n) == n > 1

Renewal(n) ==
  IF ~Renewal_check(n) THEN [ok |-> FALSE, err |-> "AssertionError", obj |-> None]
  ELSE [ok |-> TRUE, err |-> "",
        obj |-> [tag |-> "Renewal", n |-> n,
                 lim_f |-> CASE n = 2 -> 1413 [] n = 3 -> 180 [] n = 4 -> 68
                             [] n = 5 -> 39 [] OTHER -> 27,
                 lim_x_zero |-> CASE n = 2 -> 999998 [] n = 3 -> 1412 [] n = 4 -> 179
                                  [] n = 5 -> 67 [] OTHER -> 38]]

\* 1 - n!/poch(i+1, n) * (i+1)/n, as a fraction
cdf_x_zero(self, i) ==
  [num |-> poch(i + 1, self.n) * self.n - factorial(self.n) * (i + 1),
   den |-> poch(i + 1, self.n) * self.n]

\* 1 - n!/poch(i+1, n), as a fraction
cdf_f(self, i) ==
  [num |-> poch(i + 1, self.n) - factorial(self.n), den |-> poch(i + 1, self.n)]

\* np.digitize(u, table) for an increasing table of lim entries, entry i
\* being cdf(i): the number of entries <= u, found by scanning from entry i
RECURSIVE digitize_x_zero(_, _, _)
digitize_x_zero(self, u, i) ==
  IF i >= self.lim_x_zero THEN i
  ELSE IF cdf_x_zero(self, i).num * Grid <= u * cdf_x_zero(self, i).den
       THEN digitize_x_zero(self, u, i + 1)
       ELSE i

RECURSIVE digitize_f(_, _, _)
digitize_f(self, u, i) ==
  IF i >= self.lim_f THEN i
  ELSE IF cdf_f(self, i).num * Grid <= u * cdf_f(self, i).den
       THEN digitize_f(self, u, i + 1)
       ELSE i

\* Renewal.generate from the gaps on: index n is looked up in x_cumsum[:n]
Renewal_indicator(x_zero, x, N) ==
  LET x_cumsum == cumsum(<<x_zero>> \o x)
  IN [k \in 1..N |-> IF (k - 1) \in Range(SubSeq(x_cumsum, 1, k - 1)) THEN 1 ELSE 0]

Renewal_generate(self, N, seed, entropy) ==
  LET r0 == default_rng(seed, entropy)
  IN IF N = 0 THEN Raise("IndexError", r0, 0)
     ELSE LET x_zero == digitize_x_zero(self, draw(r0, 1), 0)
              x == [i \in 1..(N - 1) |-> digitize_f(self, draw(r0, i + 1), 0)]
          IN Ok(Renewal_indicator(x_zero, x, N), rng_skip(r0, N), N)

\* _Renewal.generate from the gaps on: index n is looked up in all of x_cumsum
Legacy_indicator(x_zero, x, N) ==
  LET x_cumsum == cumsum(<<x_zero>> \o x)
  IN [k \in 1..N |-> IF (k - 1) \in Range(x_cumsum) THEN 1 ELSE 0]

----------------------------------------------------------------------------
(* get_synthetic *)

Num(x) == [tag |-> "num", v |-> x]
isna(c) == c.tag = "NaN"

Col(name, k) == <<name, k>>

\* the constructor selected by name, applied to the keyword arguments
construct(stochastic_process, kwargs) ==
  CASE stochastic_process = "ar1" -> AR1(kwargs.phi)
    [] stochastic_process = "cycle_random_walk" ->
         CycleRandomWalk(kwargs.b, kwargs.s, kwargs.f, kwargs.vertices)
    [] stochastic_process = "renewal" -> Renewal(kwargs.n)
    [] stochastic_process = "two_state_markov_chain" ->
         TwoStateMarkovChain(kwargs.p, kwargs.q)
    [] OTHER -> [ok |-> FALSE, err |-> "ValueError", obj |-> None]

\* sp.generate(N, seed)
sp_generate(sp, N, seed, entropy) ==
  CASE sp.tag = "AR1" -> AR1_generate(sp, N, seed, entropy)
    [] sp.tag = "CycleRandomWalk" -> CRW_generate(sp, N, seed, entropy)
    [] sp.tag = "Renewal" -> Renewal_generate(sp, N, seed, entropy)
    [] sp.tag = "TwoStateMarkovChain" -> TSMC_generate(sp, N, seed, entropy)

\* one point short of what the lag and target shifts consume
raw_length_short(N, lags) == N + lags

\* the number of raw points asked of generate
raw_length(N, lags) == N + lags + 1

\* rng.normal(sequence, scale=1e-6) from a generator built from the same seed,
\* for the three discrete processes; the result is in units of 1e-6
Discrete == {"cycle_random_walk", "renewal", "two_state_markov_chain"}

add_noise(stochastic_process, sequence, seed, entropy) ==
  IF stochastic_process \in Discrete
  THEN [i \in 1..Len(sequence) |->
          sequence[i] * 1000000 + standard_normal(draw(default_rng(seed, entropy), i))]
  ELSE sequence

\* a shift towards the past instead of the future
shift_back(column, periods) ==
  [i \in 1..Len(column) |->
     IF i + periods \in 1..Len(column) THEN column[i + periods] ELSE NaN]

\* Series.shift(periods): row i takes the value of row i - periods
shift(column, periods) ==
  [i \in 1..Len(column) |->
     IF i - periods \in 1..Len(column) THEN column[i - periods] ELSE NaN]

\* the frame with the value column, the lag columns and the target column
with_columns(sequence, lags) ==
  LET value == [i \in 1..Len(sequence) |-> Num(sequence[i])]
      columns == <<Col("value", 0)>> \o [k \in 1..lags |-> Col("value_lag", k)]
                   \o <<Col("target", 0)>>
  IN [columns |-> columns,
      index |-> [i \in 1..Len(sequence) |-> i - 1],
      data |-> [c \in Range(columns) |->
                  IF c[1] = "value" THEN value
                  ELSE IF c[1] = "value_lag" THEN shift(value, c[2])
                  ELSE shift(value, -1)]]

KeptRow(df, i) == \A c \in Range(df.columns) : ~isna(df.data[c][i])

\* df.dropna(): the rows without NaN, under their old index labels
dropna(df) ==
  LET rows == SelectSeq([i \in 1..Len(df.index) |-> i], LAMBDA i : KeptRow(df, i))
  IN [columns |-> df.columns,
      index |-> [r \in 1..Len(rows) |-> df.index[rows[r]]],
      data |-> [c \in Range(df.columns) |-> [r \in 1..Len(rows) |-> df.data[c][rows[r]]]]]

\* df.reset_index(drop=True): labels 0, 1, 2, ...
reset_index(df) == [df EXCEPT !.index = [r \in 1..Len(df.index) |-> r - 1]]

EmptyFrame == [columns |-> <<>>, index |-> <<>>, data |-> <<>>]

SynthResult(ok, err, stage, constructed, generates, draws, raw, df) ==
  [ok |-> ok, err |-> err, stage |-> stage, constructed |-> constructed,
   generates |-> generates, draws |-> draws, raw |-> raw, df |-> df]

get_synthetic(stochastic_process, N, lags, seed, kwargs, entropy, entropy2) ==
  LET made == construct(stochastic_process, kwargs)
  IN IF ~made.ok
     THEN SynthResult(FALSE, made.err,
                      IF made.err = "ValueError" THEN "dispatch" ELSE "construct",
                      FALSE, 0, 0, <<>>, EmptyFrame)
     ELSE
       LET g == sp_generate(made.obj, raw_length(N, lags), seed, entropy)
       IN IF ~g.ok
          THEN SynthResult(FALSE, g.err, "generate", TRUE, 1, g.draws, <<>>, EmptyFrame)
          ELSE
            LET sequence == add_noise(stochastic_process, g.out, seed, entropy2)
                draws == g.draws + (IF stochastic_process \in Discrete
                                    THEN Len(sequence) ELSE 0)
                df == reset_index(dropna(with_columns(sequence, lags)))
            IN IF Len(df.index) # N
               THEN SynthResult(FALSE, "AssertionError", "assert_len", TRUE, 1, draws,
                                sequence, EmptyFrame)
               ELSE SynthResult(TRUE, "", "", TRUE, 1, draws, sequence, df)

----------------------------------------------------------------------------
(* SequentialSplit *)

SequentialSplit(sizes, show_progress) ==
  [tag |-> "SequentialSplit", sizes |-> sizes, show_progress |-> show_progress]

Min(a, b) == IF a < b THEN a ELSE b

\* list[a:b] for 0 <= a and 0 <= b
py_slice(list, a, b) == SubSeq(list, Min(a, Len(list)) + 1, Min(b, Len(list)))

\* one split too few
n_splits_short(self, indices) == Len(indices) - SumSeq(self.sizes)

n_splits(self, indices) == Len(indices) - SumSeq(self.sizes) + 1

\* the list yielded for offset t
split_partition(self, indices, t) ==
  [j \in 1..Len(self.sizes) |->
     py_slice(indices, t + SumSeq(SubSeq(self.sizes, 1, j - 1)),
                       t + SumSeq(SubSeq(self.sizes, 1, j)))]

\* split(X): a generator object whose body has not started to run
split(self, X_len) ==
  [tag |-> "generator", self |-> self, X_len |-> X_len, started |-> FALSE,
   indices |-> <<>>, n_splits |-> 0, t |-> 0, done |-> FALSE]

\* the generator with the statements before the loop run, if they have not been
split_started(g) ==
  IF g.started THEN g
  ELSE LET indices == [i \in 1..g.X_len |-> i - 1]
       IN [g EXCEPT !.started = TRUE, !.indices = indices,
                    !.n_splits = n_splits(g.self, indices)]

----------------------------------------------------------------------------
(* Calls made by a caller that holds one instance of each simulator *)

NoCall == [tag |-> "None", op |-> "none"]

\* what the caller keeps of a generate call
GenCall(op, self, N, seed, r) ==
  [tag |-> "Call", op |-> op, self |-> self, N |-> N, seed |-> seed,
   ok |-> r.ok, err |-> r.err, out |-> r.out, draws |-> r.draws]

SameKey(c, d) ==
  c.op = d.op /\ c.self = d.self /\ c.N = d.N /\ c.seed = d.seed

\* the caller keeps a seeded call to compare later calls with
Keep(keep, c) ==
  IF keep /\ c.seed.tag = "Some" THEN [tag |-> "Kept", c |-> c, between |-> FALSE]
  ELSE IF memo.tag = "None" THEN memo
  ELSE [memo EXCEPT !.between = memo.between \/ ~SameKey(c, memo.c)]

NoMemo == [tag |-> "None"]

Generated(op, self, N, seed, r, keep) ==
  /\ call' = GenCall(op, self, N, seed, r)
  /\ rng' = r.rng
  /\ memo' = Keep(keep, GenCall(op, self, N, seed, r))
  /\ UNCHANGED <<tsmc, ar1, crw, ren, args, outs, gen, yielded>>

New_TSMC ==
  /\ tsmc.tag = "None"
  /\ \E p \in -1..(Grid + 1), q \in -1..(Grid + 1) :
      LET r == TwoStateMarkovChain(p, q)
      IN /\ tsmc' = IF r.ok THEN r.obj ELSE tsmc
         /\ call' = [tag |-> "Call", op |-> "TwoStateMarkovChain", p |-> p, q |-> q,
                     ok |-> r.ok, err |-> r.err, obj |-> r.obj]
         /\ UNCHANGED <<ar1, crw, ren, args, rng, memo, outs, gen, yielded>>

Gen_TSMC(lengths, keep) ==
  /\ tsmc.tag # "None"
  /\ \E N \in lengths, seed \in Seeds, entropy \in RngStates :
       /\ (seed.tag = "Some" => entropy = 0)
       /\ Generated("TwoStateMarkovChain.generate", tsmc, N, seed,
                    TSMC_generate(tsmc, N, seed, entropy), keep)

Gen_AR1(lengths, keep) ==
  /\ ar1.tag # "None"
  /\ \E N \in lengths, seed \in Seeds, entropy \in RngStates :
       /\ (seed.tag = "Some" => entropy = 0)
       /\ Generated("AR1.generate", ar1, N, seed,
                    AR1_generate(ar1, N, seed, entropy), keep)

New_CRW ==
  /\ crw.tag = "None"
  /\ \E b \in -1..(Grid + 1), s \in 0..Grid, f \in 0..Grid, vertices \in 0..MaxVertices :
      LET r == CycleRandomWalk(b, s, f, vertices)
      IN /\ crw' = IF r.ok THEN r.obj ELSE crw
         /\ call' = [tag |-> "Call", op |-> "CycleRandomWalk", b |-> b, s |-> s, f |-> f,
                     vertices |-> vertices, ok |-> r.ok, err |-> r.err, obj |-> r.obj]
         /\ UNCHANGED <<tsmc, ar1, ren, args, rng, memo, outs, gen, yielded>>

Gen_CRW(lengths, keep) ==
  /\ crw.tag # "None"
  /\ \E N \in lengths, seed \in Seeds, entropy \in RngStates :
       /\ (seed.tag = "Some" => entropy = 0)
       /\ Generated("CycleRandomWalk.generate", crw, N, seed,
                    CRW_generate(crw, N, seed, entropy), keep)

New_Renewal ==
  /\ ren.tag = "None"
  /\ \E n \in 0..MaxDecay :
      LET r == Renewal(n)
      IN /\ ren' = IF r.ok THEN r.obj ELSE ren
         /\ call' = [tag |-> "Call", op |-> "Renewal", n |-> n,
                     ok |-> r.ok, err |-> r.err, obj |-> r.obj]
         /\ UNCHANGED <<tsmc, ar1, crw, args, rng, memo, outs, gen, yielded>>

Gen_Renewal(lengths, keep) ==
  /\ ren.tag # "None"
  /\ \E N \in lengths, seed \in Seeds, entropy \in RngStates :
       /\ (seed.tag = "Some" => entropy = 0)
       /\ Generated("Renewal.generate", ren, N, seed,
                    Renewal_generate(ren, N, seed, entropy), keep)

Idle ==
  /\ args = None /\ call = NoCall /\ rng = 0 /\ memo = NoMemo
  /\ outs = None /\ gen = None /\ yielded = <<>>

\* a caller of TwoStateMarkovChain
InitTSMC == Idle /\ tsmc = None /\ ar1 = None /\ crw = None /\ ren = None
TSMC_generate_call == Gen_TSMC(0..MaxN, FALSE)
NextTSMC == New_TSMC \/ TSMC_generate_call
SpecTSMC == InitTSMC /\ [][NextTSMC]_vars

\* a caller of CycleRandomWalk
InitCRW == Idle /\ tsmc = None /\ ar1 = None /\ crw = None /\ ren = None
CRW_generate_call == Gen_CRW(0..MaxN, FALSE)
NextCRW == New_CRW \/ CRW_generate_call
SpecCRW == InitCRW /\ [][NextCRW]_vars

----------------------------------------------------------------------------
(* Claims about TwoStateMarkovChain and CycleRandomWalk *)

\* C4: for every p and q in [0,1], the boundary values 0 and 1 included,
\* TwoStateMarkovChain(p, q) is constructed without error, and generate(N, seed)
\* raises no error and returns N values, each 0 or 1, for every length N.
C4_ValidChainGenerates ==
  /\ (call.op = "TwoStateMarkovChain" /\ call.p \in 0..Grid /\ call.q \in 0..Grid)
        => call.ok
  /\ call.op = "TwoStateMarkovChain.generate"
        => /\ call.ok
           /\ Len(call.out) = call.N
           /\ \A i \in 1..Len(call.out) : call.out[i] \in {0, 1}

\* C5: for every b, s, f in [0,1] with b+s+f = 1 and every vertex count >= 1,
\* vertices = 1 and vertices = 2 included, construction passes the row-sum
\* assertion and every row of the transition matrix sums to 1.
C5_RowsSumToOne ==
  (/\ call.op = "CycleRandomWalk"
   /\ call.b \in 0..Grid /\ call.s \in 0..Grid /\ call.f \in 0..Grid
   /\ call.b + call.s + call.f = Grid
   /\ call.vertices >= 1)
    => /\ call.ok
       /\ \A i \in 0..(call.vertices - 1) :
            SumSeq([j \in 1..call.vertices |-> call.obj.P[i][j - 1]]) = Grid

\* the moves that have a positive probability
PossibleMoves(self) ==
  {m \in {-1, 0, 1} : (m = -1 => self.b > 0) /\ (m = 0 => self.s > 0) /\ (m = 1 => self.f > 0)}

WalkShape(c) ==
  /\ c.ok
  /\ Len(c.out) = c.N
  /\ \A i \in 1..Len(c.out) : c.out[i] >= 0 /\ c.out[i] < c.self.vertices
  /\ \A i \in 2..Len(c.out) :
       \E m \in PossibleMoves(c.self) :
         \E k \in -1..1 : c.out[i] = c.out[i - 1] + m + k * c.self.vertices

----------------------------------------------------------------------------
(* The two renewal classes applied to the same gaps *)

GapInputs ==
  {[x_zero |-> z, x |-> x, N |-> Len(x) + 1] :
     z \in 0..MaxGap, x \in UNION {[1..k -> 1..MaxGap] : k \in 0..(MaxN - 1)}}

NotBuilt == [built |-> FALSE, out |-> <<>>]
Built(out) == [built |-> TRUE, out |-> out]

InitGaps ==
  /\ args \in GapInputs
  /\ outs = [Renewal |-> NotBuilt, Legacy |-> NotBuilt]
  /\ call = NoCall /\ rng = 0 /\ memo = NoMemo /\ gen = None /\ yielded = <<>>
  /\ tsmc = None /\ ar1 = None /\ crw = None /\ ren = None

Renewal_from_gaps ==
  /\ outs' = [outs EXCEPT !.Renewal = Built(Renewal_indicator(args.x_zero, args.x, args.N))]
  /\ UNCHANGED <<tsmc, ar1, crw, ren, args, call, rng, memo, gen, yielded>>

Legacy_from_gaps ==
  /\ outs' = [outs EXCEPT !.Legacy = Built(Legacy_indicator(args.x_zero, args.x, args.N))]
  /\ UNCHANGED <<tsmc, ar1, crw, ren, args, call, rng, memo, gen, yielded>>

NextGaps == Renewal_from_gaps \/ Legacy_from_gaps
SpecGaps == InitGaps /\ [][NextGaps]_vars

\* the arrival times: the cumulative sums of all N gaps
ArrivalTimes == Range(cumsum(<<args.x_zero>> \o args.x))

\* C1: for every gap sequence and every index i in [0, N), the output of
\* Renewal.generate at i is 1 if and only if i is one of the arrival times.
C1_ArrivalIndicator ==
  outs.Renewal.built =>
    \A i \in 0..(args.N - 1) : (outs.Renewal.out[i + 1] = 1) <=> (i \in ArrivalTimes)

\* C10: from the same gaps, Renewal and _Renewal build the same 0/1 sequence.
C10_SameIndicator ==
  (outs.Renewal.built /\ outs.Legacy.built) => outs.Renewal.out = outs.Legacy.out

----------------------------------------------------------------------------
(* get_synthetic applied to one set of arguments *)

Kwargs ==
  [ar1 |-> {[phi |-> phi] : phi \in {-1, 0, 2}},
   cycle_random_walk |->
     {[b |-> b, s |-> s, f |-> Grid - b - s + d, vertices |-> v] :
        b \in -1..Grid, s \in 0..Grid, d \in 0..1, v \in 1..MaxVertices},
   renewal |-> {[n |-> n] : n \in 0..MaxDecay},
   two_state_markov_chain |->
     {[p |-> p, q |-> q] : p \in -1..Grid, q \in 0..(Grid + 1)},
   hawkes |-> {[n |-> 2]}]

SynthInputs ==
  UNION {{[stochastic_process |-> name, N |-> N, lags |-> lags, seed |-> seed, kwargs |-> kw] :
            N \in 0..MaxRows, lags \in 0..MaxLags, seed \in Seeds, kw \in Kwargs[name]} :
         name \in DOMAIN Kwargs}

InitSynth ==
  /\ args \in SynthInputs
  /\ call = NoCall /\ rng = 0 /\ memo = NoMemo /\ gen = None /\ yielded = <<>>
  /\ outs = None /\ tsmc = None /\ ar1 = None /\ crw = None /\ ren = None

get_synthetic_call ==
  /\ call.op = "none"
  /\ \E entropy \in RngStates, entropy2 \in RngStates :
       /\ (args.seed.tag = "Some" => entropy = 0 /\ entropy2 = 0)
       /\ call' = [tag |-> "Call", op |-> "get_synthetic"] @@
                  get_synthetic(args.stochastic_process, args.N, args.lags, args.seed,
                                args.kwargs, entropy, entropy2)
  /\ UNCHANGED <<tsmc, ar1, crw, ren, args, rng, memo, outs, gen, yielded>>

NextSynth == get_synthetic_call
SpecSynth == InitSynth /\ [][NextSynth]_vars

Returned == call.op = "get_synthetic" /\ call.ok

\* C2: get_synthetic asks generate for N+lags+1 points; in the frame built from
\* them exactly the first `lags` rows and the last row hold an undefined
\* value; the returned dataset has exactly N rows and the length assertion
\* never fails.
C2_RowCount ==
  call.op = "get_synthetic" =>
    /\ call.stage # "assert_len"
    /\ call.ok =>
         /\ Len(call.raw) = args.N + args.lags + 1
         /\ \A i \in 1..Len(call.raw) :
              ~KeptRow(with_columns(call.raw, args.lags), i)
                <=> (i <= args.lags \/ i = Len(call.raw))
         /\ Len(call.df.index) = args.N
         /\ \A c \in Range(call.df.columns) : Len(call.df.data[c]) = args.N

\* a dataset returned with lag columns and at least two rows
C2_Witness == Returned /\ args.lags >= 1 /\ args.N >= 2

\* C3: row r of the returned dataset (index r, from 0) holds raw[r+lags] as
\* value, raw[r+lags-k] as value_lag_k for k in 1..lags and raw[r+lags+1] as
\* target; the columns are value, value_lag_1..value_lag_lags, target, in that
\* order, and no entry is undefined.  (raw is indexed from 0 in the claim and
\* from 1 here.)
C3_RowContents ==
  Returned =>
    /\ call.df.columns =
         <<Col("value", 0)>> \o [k \in 1..args.lags |-> Col("value_lag", k)]
           \o <<Col("target", 0)>>
    /\ call.df.index = [r \in 1..args.N |-> r - 1]
    /\ \A r \in 1..args.N :
         /\ call.df.data[Col("value", 0)][r] = Num(call.raw[r + args.lags])
         /\ \A k \in 1..args.lags :
              call.df.data[Col("value_lag", k)][r] = Num(call.raw[r + args.lags - k])
         /\ call.df.data[Col("target", 0)][r] = Num(call.raw[r + args.lags + 1])

\* a returned dataset of a noise-perturbed process with two lags, whose rows
\* differ from one another
C3_Witness ==
  /\ Returned /\ args.lags = 2 /\ args.N >= 2
  /\ args.stochastic_process \in Discrete
  /\ call.df.data[Col("value_lag", 2)][1] # call.df.data[Col("target", 0)][1]

\* the inputs the claim calls invalid, stated on the arguments alone
UnknownName ==
  args.stochastic_process \notin {"ar1", "cycle_random_walk", "renewal", "two_state_markov_chain"}

ViolatesChecks ==
  LET kw == args.kwargs
  IN CASE args.stochastic_process = "two_state_markov_chain" ->
            kw.p < 0 \/ kw.p > Grid \/ kw.q < 0 \/ kw.q > Grid
       [] args.stochastic_process = "cycle_random_walk" ->
            \/ kw.b < 0 \/ kw.b > Grid \/ kw.s < 0 \/ kw.s > Grid
            \/ kw.f < 0 \/ kw.f > Grid \/ kw.b + kw.s + kw.f # Grid
       [] args.stochastic_process = "renewal" -> kw.n <= 1
       [] OTHER -> FALSE

\* C9: an unrecognized process name or parameters that violate a constructor's
\* checks raise an error before generate is called: no generate call, no random
\* draw, no dataset; and once construction has succeeded, generation and
\* assembly raise no error.
C9_RejectBeforeGenerate ==
  call.op = "get_synthetic" =>
    /\ (UnknownName \/ ViolatesChecks) =>
         /\ ~call.ok /\ ~call.constructed
         /\ call.generates = 0 /\ call.draws = 0
         /\ call.df = EmptyFrame
    /\ UnknownName => call.err = "ValueError"
    /\ call.constructed => call.ok

\* a call with a renewal decay coefficient of 1, which raised
C9_Witness ==
  /\ call.op = "get_synthetic" /\ args.stochastic_process = "renewal"
  /\ args.kwargs.n = 1 /\ ~call.ok

----------------------------------------------------------------------------
(* A caller of SequentialSplit.split *)

SplitInputs ==
  {[X_len |-> n, splitter |-> SequentialSplit(sizes, show)] :
     n \in 0..MaxX, show \in BOOLEAN,
     sizes \in UNION {[1..k -> 0..MaxSize] : k \in 0..2}}

InitSplit ==
  /\ args \in SplitInputs
  /\ gen = None /\ yielded = <<>>
  /\ call = NoCall /\ rng = 0 /\ memo = NoMemo
  /\ outs = None /\ tsmc = None /\ ar1 = None /\ crw = None /\ ren = None

\* split(X) is called: a new generator, nothing yielded by it yet
split_call ==
  /\ gen' = split(args.splitter, args.X_len)
  /\ yielded' = <<>>
  /\ call' = [tag |-> "Call", op |-> "split"]
  /\ UNCHANGED <<tsmc, ar1, crw, ren, args, rng, memo, outs>>

\* next(generator): the next partition, or StopIteration
next_call ==
  /\ gen.tag = "generator"
  /\ LET g == split_started(gen)
     IN IF ~g.done /\ g.t < g.n_splits
        THEN /\ yielded' = Append(yielded, split_partition(g.self, g.indices, g.t))
             /\ gen' = [g EXCEPT !.t = g.t + 1]
             /\ call' = [tag |-> "Call", op |-> "next"]
        ELSE /\ yielded' = yielded
             /\ gen' = [g EXCEPT !.done = TRUE]
             /\ call' = [tag |-> "Call", op |-> "StopIteration"]
  /\ UNCHANGED <<tsmc, ar1, crw, ren, args, rng, memo, outs>>

NextSplit == split_call \/ next_call
SpecSplit == InitSplit /\ [][NextSplit]_vars

SizesOf == args.splitter.sizes

\* segment j of the partition for offset t, as the claim describes it
Segment(t, j) ==
  [i \in 1..SizesOf[j] |-> t + SumSeq(SubSeq(SizesOf, 1, j - 1)) + i - 1]

PartitionsInOrder ==
  \A k \in 1..Len(yielded) :
    /\ Len(yielded[k]) = Len(SizesOf)
    /\ \A j \in 1..Len(SizesOf) :
         /\ yielded[k][j] = Segment(k - 1, j)
         /\ \A i \in 1..Len(yielded[k][j]) :
              yielded[k][j][i] >= 0 /\ yielded[k][j][i] < args.X_len

\* C8 as stated: the partitions come in increasing order of t, the one for t
\* made of the segments the sizes ask for, and when the generator is exhausted
\* it has yielded len(X) - sum(sizes) + 1 partitions.
C8_CountAsStated ==
  gen.tag = "generator" =>
    /\ PartitionsInOrder
    /\ gen.done => Len(yielded) = args.X_len - SumSeq(SizesOf) + 1

\* C8 amended: the same, with len(X) - sum(sizes) + 1 partitions when that
\* number is not negative and none otherwise; a new call of split starts again
\* at t = 0.
C8_Partitions ==
  gen.tag = "generator" =>
    /\ PartitionsInOrder
    /\ Len(yielded) = gen.t
    /\ gen.done =>
         Len(yielded) = IF args.X_len - SumSeq(SizesOf) + 1 >= 0
                        THEN args.X_len - SumSeq(SizesOf) + 1 ELSE 0

\* an exhausted generator that has yielded three partitions of two segments
C8_Witness ==
  /\ gen.tag = "generator" /\ gen.done
  /\ Len(yielded) = 3 /\ SizesOf = <<2, 1>>

----------------------------------------------------------------------------
(* A caller that holds one instance of each simulator and calls generate on  *)
(* them in any order, keeping one seeded result to compare later ones with   *)

InitDet ==
  /\ tsmc = TwoStateMarkovChain(1, 2).obj
  /\ ar1 = AR1(2).obj
  /\ crw = CycleRandomWalk(1, 1, Grid - 2, 3).obj
  /\ ren = Renewal(2).obj
  /\ args = None /\ call = NoCall /\ rng = 0 /\ memo = NoMemo
  /\ outs = None /\ gen = None /\ yielded = <<>>

Det_TSMC == \E keep \in BOOLEAN : Gen_TSMC(1..MaxDetN, keep)
Det_AR1 == \E keep \in BOOLEAN : Gen_AR1(1..MaxDetN, keep)
Det_CRW == \E keep \in BOOLEAN : Gen_CRW(1..MaxDetN, keep)
Det_Renewal == \E keep \in BOOLEAN : Gen_Renewal(1..MaxDetN, keep)

NextDet == Det_TSMC \/ Det_AR1 \/ Det_CRW \/ Det_Renewal
SpecDet == InitDet /\ [][NextDet]_vars

\* the instance a generate call was made on, as it is after the call
InstanceOf(c) ==
  CASE c.op = "TwoStateMarkovChain.generate" -> tsmc
    [] c.op = "AR1.generate" -> ar1
    [] c.op = "CycleRandomWalk.generate" -> crw
    [] c.op = "Renewal.generate" -> ren

\* C7: a generate call with a seed returns what an earlier call on the same
\* instance with the same N and seed returned, whatever calls were made in
\* between, and a generate call leaves the instance it is made on as it was.
C7_Deterministic ==
  call.tag = "Call" =>
    /\ (memo.tag = "Kept" /\ SameKey(call, memo.c)) =>
         call.ok = memo.c.ok /\ call.err = memo.c.err /\ call.out = memo.c.out
    /\ InstanceOf(call) = call.self

\* a seeded call repeated after calls with other arguments
C7_Witness ==
  /\ call.tag = "Call" /\ memo.tag = "Kept" /\ memo.between
  /\ SameKey(call, memo.c) /\ call.ok /\ Len(call.out) >= 2

====
